---- MODULE Spec2Model ----
\* Drag model of go_ballisticcalc (Drag.go): the eight reference drag tables,
\* the curve fitter calculateCurve, the evaluator calculateByCurve and the
\* BallisticCoefficient API built on them.
\*
\* Numbers.  The source computes in float64.  The model computes in exact
\* rational arithmetic: a Mach number is an integer count of MachUnit
\* (1/40 = 0.025, the common divisor of every Mach literal of the tables), a
\* drag coefficient literal is an integer count of 1/10000, and every derived
\* quantity (curve coefficients, evaluated drag) is a normalised fraction
\* <<numerator, denominator>> of those units.  Rounding error of float64 is
\* therefore outside the model.
EXTENDS Integers, Sequences, FiniteSets, TLC

\* ------------------------------------------------------------------------
\* State
\* ------------------------------------------------------------------------
VARIABLES
  bc,         \* the BallisticCoefficient the caller holds
  err,        \* the last CreateBallisticCoefficient: "none" yet, or "nil", "error", "panic"
  in,         \* arguments of the last CreateBallisticCoefficient
  op,         \* the exported function called last
  pc,         \* "idle", inside calculateByCurve ("loop", "return"), or "panic"
  data,       \* calculateByCurve: argument data
  curve,      \* calculateByCurve: argument curve
  mach,       \* calculateByCurve: argument mach
  numPoints,  \* calculateByCurve: locals
  m,
  mlo,
  mhi,
  mid,
  used,       \* indices calculateByCurve has read data and curve at, this call
  cd,         \* value calculateByCurve returned
  ret,        \* value the exported function returned
  store       \* package-level tables and curves assigned to since package
              \* initialisation, by name, with their contents

vars == <<bc, err, in, op, pc, data, curve, mach,
          numPoints, m, mlo, mhi, mid, used, cd, ret, store>>

caller == <<bc, err, in>>

\* ------------------------------------------------------------------------
\* Bounds of the model
\* ------------------------------------------------------------------------
\* largest dragTable byte passed to CreateBallisticCoefficient (byte: 0..255)
MaxDragTable == 10
\* coefficient values passed in are v/2 for v in -MaxValue..MaxValue
MaxValue == 2
\* Mach inputs range MachMargin units beyond both ends of a table
MachMargin == 2
\* caller-supplied tables: at most MaxPoints samples, Mach in 0..MaxMach,
\* drag coefficient in 0..MaxCoef
MaxPoints == 4
MaxMach == 4
MaxCoef == 1

\* ------------------------------------------------------------------------
\* float64 arithmetic, modelled exactly on fractions <<n, d>>, d > 0
\* ------------------------------------------------------------------------
Abs(x) == IF x < 0 THEN -x ELSE x

RECURSIVE Gcd(_, _)
Gcd(a, b) == IF b = 0 THEN a ELSE Gcd(b, a % b)

QNorm(n, d) ==
  LET g == Gcd(Abs(n), Abs(d))
      s == IF d < 0 THEN -1 ELSE 1
  IN  <<(s * n) \div g, (s * d) \div g>>

QInt(n) == <<n, 1>>

QNeg(p) == <<-p[1], p[2]>>

QAdd(p, q) ==
  LET g == Gcd(p[2], q[2])
      l == (p[2] \div g) * q[2]
  IN  QNorm(p[1] * (l \div p[2]) + q[1] * (l \div q[2]), l)

QSub(p, q) == QAdd(p, QNeg(q))

QMul(p, q) ==
  LET g1 == Gcd(Abs(p[1]), q[2])
      g2 == Gcd(Abs(q[1]), p[2])
  IN  QNorm((p[1] \div g1) * (q[1] \div g2), (p[2] \div g2) * (q[2] \div g1))

QDiv(p, q) == QMul(p, IF q[1] < 0 THEN <<-q[2], -q[1]>> ELSE <<q[2], q[1]>>)

\* ------------------------------------------------------------------------
\* Drag table identifiers
\* ------------------------------------------------------------------------
DragTableG1 == 1
DragTableG2 == 2
DragTableG5 == 3
DragTableG6 == 4
DragTableG7 == 5
DragTableG8 == 6
DragTableGS == 7
DragTableGI == 8

\* ------------------------------------------------------------------------
\* Reference tables.  DataPoint{A: Mach, B: drag coefficient}; A in units of
\* 0.025, B in units of 0.0001.
\* ------------------------------------------------------------------------
DataPoint(a, b) == [A |-> a, B |-> b]

DataPoints(pairs) == [i \in 1..Len(pairs) |-> DataPoint(pairs[i][1], pairs[i][2])]

\* g1Table (Drag.go lines 138-218), 79 samples.
g1Table ==
  DataPoints(<<
    <<0,2629>>, <<2,2558>>, <<4,2487>>, <<6,2413>>, <<8,2344>>, <<10,2278>>,
    <<12,2214>>, <<14,2155>>, <<16,2104>>, <<18,2061>>, <<20,2032>>, <<22,2020>>,
    <<24,2034>>, <<28,2165>>, <<29,2230>>, <<30,2313>>, <<31,2417>>, <<32,2546>>,
    <<33,2706>>, <<34,2901>>, <<35,3136>>, <<36,3415>>, <<37,3734>>, <<38,4084>>,
    <<39,4448>>, <<40,4805>>, <<41,5136>>, <<42,5427>>, <<43,5677>>, <<44,5883>>,
    <<45,6053>>, <<46,6191>>, <<48,6393>>, <<50,6518>>, <<52,6589>>, <<54,6621>>,
    <<56,6625>>, <<58,6607>>, <<60,6573>>, <<62,6528>>, <<64,6474>>, <<66,6413>>,
    <<68,6347>>, <<70,6280>>, <<72,6210>>, <<74,6141>>, <<76,6072>>, <<78,6003>>,
    <<80,5934>>, <<82,5867>>, <<84,5804>>, <<86,5743>>, <<88,5685>>, <<90,5630>>,
    <<92,5577>>, <<94,5527>>, <<96,5481>>, <<98,5438>>, <<100,5397>>, <<104,5325>>,
    <<108,5264>>, <<112,5211>>, <<116,5168>>, <<120,5133>>, <<124,5105>>, <<128,5084>>,
    <<132,5067>>, <<136,5054>>, <<140,5040>>, <<144,5030>>, <<148,5022>>, <<152,5016>>,
    <<156,5010>>, <<160,5006>>, <<168,4998>>, <<176,4995>>, <<184,4992>>, <<192,4990>>,
    <<200,4988>>
  >>)

\* g7Table (Drag.go lines 222-307), 84 samples.
g7Table ==
  DataPoints(<<
    <<0,1198>>, <<2,1197>>, <<4,1196>>, <<6,1194>>, <<8,1193>>, <<10,1194>>,
    <<12,1194>>, <<14,1194>>, <<16,1193>>, <<18,1193>>, <<20,1194>>, <<22,1193>>,
    <<24,1194>>, <<26,1197>>, <<28,1202>>, <<29,1207>>, <<30,1215>>, <<31,1226>>,
    <<32,1242>>, <<33,1266>>, <<34,1306>>, <<35,1368>>, <<36,1464>>, <<37,1660>>,
    <<38,2054>>, <<39,2993>>, <<40,3803>>, <<41,4015>>, <<42,4043>>, <<43,4034>>,
    <<44,4014>>, <<45,3987>>, <<46,3955>>, <<48,3884>>, <<50,3810>>, <<52,3732>>,
    <<54,3657>>, <<56,3580>>, <<60,3440>>, <<62,3376>>, <<64,3315>>, <<66,3260>>,
    <<68,3209>>, <<70,3160>>, <<72,3117>>, <<74,3078>>, <<76,3042>>, <<78,3010>>,
    <<80,2980>>, <<82,2951>>, <<84,2922>>, <<86,2892>>, <<88,2864>>, <<90,2835>>,
    <<92,2807>>, <<94,2779>>, <<96,2752>>, <<98,2725>>, <<100,2697>>, <<102,2670>>,
    <<104,2643>>, <<106,2615>>, <<108,2588>>, <<110,2561>>, <<112,2533>>, <<114,2506>>,
    <<116,2479>>, <<118,2451>>, <<120,2424>>, <<124,2368>>, <<128,2313>>, <<132,2258>>,
    <<136,2205>>, <<140,2154>>, <<144,2106>>, <<148,2060>>, <<152,2017>>, <<156,1975>>,
    <<160,1935>>, <<168,1861>>, <<176,1793>>, <<184,1730>>, <<192,1672>>, <<200,1618>>
  >>)

\* g2Table (Drag.go lines 311-397), 85 samples.
g2Table ==
  DataPoints(<<
    <<0,2303>>, <<2,2298>>, <<4,2287>>, <<6,2271>>, <<8,2251>>, <<10,2227>>,
    <<12,2196>>, <<14,2156>>, <<16,2107>>, <<18,2048>>, <<20,1980>>, <<22,1905>>,
    <<24,1828>>, <<26,1758>>, <<28,1702>>, <<30,1669>>, <<31,1664>>, <<32,1667>>,
    <<33,1682>>, <<34,1711>>, <<35,1761>>, <<36,1831>>, <<37,2004>>, <<38,2589>>,
    <<39,3492>>, <<40,3983>>, <<41,4075>>, <<42,4103>>, <<43,4114>>, <<44,4106>>,
    <<45,4089>>, <<46,4068>>, <<47,4046>>, <<48,4021>>, <<50,3966>>, <<52,3904>>,
    <<54,3835>>, <<56,3759>>, <<58,3678>>, <<60,3594>>, <<62,3512>>, <<64,3432>>,
    <<66,3356>>, <<68,3282>>, <<70,3213>>, <<72,3149>>, <<74,3089>>, <<76,3033>>,
    <<78,2982>>, <<80,2933>>, <<82,2889>>, <<84,2846>>, <<86,2806>>, <<88,2768>>,
    <<90,2731>>, <<92,2696>>, <<94,2663>>, <<96,2632>>, <<98,2602>>, <<100,2572>>,
    <<102,2543>>, <<104,2515>>, <<106,2487>>, <<108,2460>>, <<110,2433>>, <<112,2408>>,
    <<114,2382>>, <<116,2357>>, <<118,2333>>, <<120,2309>>, <<124,2262>>, <<128,2217>>,
    <<132,2173>>, <<136,2132>>, <<140,2091>>, <<144,2052>>, <<148,2014>>, <<152,1978>>,
    <<156,1944>>, <<160,1912>>, <<168,1851>>, <<176,1794>>, <<184,1741>>, <<192,1693>>,
    <<200,1648>>
  >>)

\* g5Table (Drag.go lines 401-478), 76 samples.
g5Table ==
  DataPoints(<<
    <<0,1710>>, <<2,1719>>, <<4,1727>>, <<6,1732>>, <<8,1734>>, <<10,1730>>,
    <<12,1718>>, <<14,1696>>, <<16,1668>>, <<18,1637>>, <<20,1603>>, <<22,1566>>,
    <<24,1529>>, <<26,1497>>, <<28,1473>>, <<30,1463>>, <<32,1489>>, <<34,1583>>,
    <<35,1672>>, <<36,1815>>, <<37,2051>>, <<38,2413>>, <<39,2884>>, <<40,3379>>,
    <<41,3785>>, <<42,4032>>, <<43,4147>>, <<44,4201>>, <<46,4278>>, <<48,4338>>,
    <<50,4373>>, <<52,4392>>, <<54,4403>>, <<56,4406>>, <<58,4401>>, <<60,4386>>,
    <<62,4362>>, <<64,4328>>, <<66,4286>>, <<68,4237>>, <<70,4182>>, <<72,4121>>,
    <<74,4057>>, <<76,3991>>, <<78,3926>>, <<80,3861>>, <<82,3800>>, <<84,3741>>,
    <<86,3684>>, <<88,3630>>, <<90,3578>>, <<92,3529>>, <<94,3481>>, <<96,3435>>,
    <<98,3391>>, <<100,3349>>, <<104,3269>>, <<108,3194>>, <<112,3125>>, <<116,3060>>,
    <<120,2999>>, <<124,2942>>, <<128,2889>>, <<132,2838>>, <<136,2790>>, <<140,2745>>,
    <<144,2703>>, <<148,2662>>, <<152,2624>>, <<156,2588>>, <<160,2553>>, <<168,2488>>,
    <<176,2429>>, <<184,2376>>, <<192,2326>>, <<200,2280>>
  >>)

\* g6Table (Drag.go lines 482-562), 79 samples.
g6Table ==
  DataPoints(<<
    <<0,2617>>, <<2,2553>>, <<4,2491>>, <<6,2432>>, <<8,2376>>, <<10,2324>>,
    <<12,2278>>, <<14,2238>>, <<16,2205>>, <<18,2177>>, <<20,2155>>, <<22,2138>>,
    <<24,2126>>, <<26,2121>>, <<28,2122>>, <<30,2132>>, <<32,2154>>, <<34,2194>>,
    <<35,2229>>, <<36,2297>>, <<37,2449>>, <<38,2732>>, <<39,3141>>, <<40,3597>>,
    <<41,3994>>, <<42,4261>>, <<43,4402>>, <<44,4465>>, <<45,4490>>, <<46,4497>>,
    <<47,4494>>, <<48,4482>>, <<49,4464>>, <<50,4441>>, <<52,4390>>, <<54,4336>>,
    <<56,4279>>, <<58,4221>>, <<60,4162>>, <<62,4102>>, <<64,4042>>, <<66,3981>>,
    <<68,3919>>, <<70,3855>>, <<72,3788>>, <<74,3721>>, <<76,3652>>, <<78,3583>>,
    <<80,3515>>, <<82,3447>>, <<84,3381>>, <<86,3314>>, <<88,3249>>, <<90,3185>>,
    <<92,3122>>, <<94,3060>>, <<96,3000>>, <<98,2941>>, <<100,2883>>, <<104,2772>>,
    <<108,2668>>, <<112,2574>>, <<116,2487>>, <<120,2407>>, <<124,2333>>, <<128,2265>>,
    <<132,2202>>, <<136,2144>>, <<140,2089>>, <<144,2039>>, <<148,1991>>, <<152,1947>>,
    <<156,1905>>, <<160,1866>>, <<168,1794>>, <<176,1730>>, <<184,1673>>, <<192,1621>>,
    <<200,1574>>
  >>)

\* g8Table (Drag.go lines 566-645), 78 samples.
g8Table ==
  DataPoints(<<
    <<0,2105>>, <<2,2105>>, <<4,2104>>, <<6,2104>>, <<8,2103>>, <<10,2103>>,
    <<12,2103>>, <<14,2103>>, <<16,2103>>, <<18,2102>>, <<20,2102>>, <<22,2102>>,
    <<24,2102>>, <<26,2102>>, <<28,2103>>, <<30,2103>>, <<32,2104>>, <<33,2104>>,
    <<34,2105>>, <<35,2106>>, <<36,2109>>, <<37,2183>>, <<38,2571>>, <<39,3358>>,
    <<40,4068>>, <<41,4378>>, <<42,4476>>, <<43,4493>>, <<44,4477>>, <<45,4450>>,
    <<46,4419>>, <<48,4353>>, <<50,4283>>, <<52,4208>>, <<54,4133>>, <<56,4059>>,
    <<58,3986>>, <<60,3915>>, <<62,3845>>, <<64,3777>>, <<66,3710>>, <<68,3645>>,
    <<70,3581>>, <<72,3519>>, <<74,3458>>, <<76,3400>>, <<78,3343>>, <<80,3288>>,
    <<82,3234>>, <<84,3182>>, <<86,3131>>, <<88,3081>>, <<90,3032>>, <<92,2983>>,
    <<94,2937>>, <<96,2891>>, <<98,2845>>, <<100,2802>>, <<104,2720>>, <<108,2642>>,
    <<112,2569>>, <<116,2499>>, <<120,2432>>, <<124,2368>>, <<128,2308>>, <<132,2251>>,
    <<136,2197>>, <<140,2147>>, <<144,2101>>, <<148,2058>>, <<152,2019>>, <<156,1983>>,
    <<160,1950>>, <<168,1890>>, <<176,1837>>, <<184,1791>>, <<192,1750>>, <<200,1713>>
  >>)

\* gITable (Drag.go lines 649-731), 81 samples.
gITable ==
  DataPoints(<<
    <<0,2282>>, <<2,2282>>, <<4,2282>>, <<6,2282>>, <<8,2282>>, <<10,2282>>,
    <<12,2282>>, <<14,2282>>, <<16,2282>>, <<18,2282>>, <<20,2282>>, <<22,2282>>,
    <<24,2282>>, <<26,2282>>, <<28,2282>>, <<29,2353>>, <<30,2434>>, <<31,2515>>,
    <<32,2596>>, <<33,2677>>, <<34,2759>>, <<35,2913>>, <<36,3170>>, <<37,3442>>,
    <<38,3728>>, <<40,4349>>, <<42,5034>>, <<43,5402>>, <<44,5756>>, <<45,5887>>,
    <<46,6018>>, <<47,6149>>, <<48,6279>>, <<49,6418>>, <<50,6423>>, <<52,6423>>,
    <<54,6423>>, <<56,6423>>, <<58,6423>>, <<60,6423>>, <<62,6423>>, <<64,6423>>,
    <<65,6407>>, <<66,6378>>, <<68,6321>>, <<70,6266>>, <<72,6213>>, <<74,6163>>,
    <<76,6113>>, <<78,6066>>, <<80,6020>>, <<82,5976>>, <<84,5933>>, <<86,5891>>,
    <<88,5850>>, <<90,5811>>, <<92,5773>>, <<94,5733>>, <<96,5679>>, <<98,5626>>,
    <<100,5576>>, <<104,5478>>, <<108,5386>>, <<112,5298>>, <<116,5215>>, <<120,5136>>,
    <<124,5061>>, <<128,4989>>, <<132,4921>>, <<136,4855>>, <<140,4792>>, <<144,4732>>,
    <<148,4674>>, <<152,4618>>, <<156,4564>>, <<160,4513>>, <<168,4415>>, <<176,4323>>,
    <<184,4238>>, <<192,4157>>, <<200,4082>>
  >>)

\* a variant of gSTable: the Mach value of the first sample repeated in the
\* second sample
gSTableRepeatedMach == [gITable EXCEPT ![2].A = gITable[1].A]

\* gSTable = gITable: "tables are the same"
gSTable == gITable

\* ------------------------------------------------------------------------
\* Curve fitter
\* ------------------------------------------------------------------------
CurvePoint(a, b, c) == [A |-> a, B |-> b, C |-> c]

\* Go slices are indexed from 0
At(s, i) == s[i + 1]

\* rate := (dataPoints[1].B - dataPoints[0].B) / (dataPoints[1].A - dataPoints[0].A)
\* curve[0] = CurvePoint{A: 0, B: rate, C: dataPoints[0].B - dataPoints[0].A*rate}
FirstSegment(dataPoints) ==
  LET rate == QDiv(QInt(At(dataPoints, 1).B - At(dataPoints, 0).B),
                   QInt(At(dataPoints, 1).A - At(dataPoints, 0).A))
  IN  CurvePoint(QInt(0), rate,
                 QSub(QInt(At(dataPoints, 0).B), QMul(QInt(At(dataPoints, 0).A), rate)))

\* a variant of Interior: c = y1 - (a*x1 + b*x1), the square of x1 lost
InteriorNoSquare(dataPoints, i) ==
  LET x1 == At(dataPoints, i - 1).A
      x2 == At(dataPoints, i).A
      x3 == At(dataPoints, i + 1).A
      y1 == At(dataPoints, i - 1).B
      y2 == At(dataPoints, i).B
      y3 == At(dataPoints, i + 1).B
      a == QDiv(QInt((y3 - y1) * (x2 - x1) - (y2 - y1) * (x3 - x1)),
                QInt((x3 * x3 - x1 * x1) * (x2 - x1) - (x2 * x2 - x1 * x1) * (x3 - x1)))
      b == QDiv(QSub(QInt(y2 - y1), QMul(a, QInt(x2 * x2 - x1 * x1))), QInt(x2 - x1))
      c == QSub(QInt(y1), QAdd(QMul(a, QInt(x1)), QMul(b, QInt(x1))))
  IN  CurvePoint(a, b, c)

\* the body of the loop: the 2nd degree polynomial on three adjacent points
Interior(dataPoints, i) ==
  LET x1 == At(dataPoints, i - 1).A
      x2 == At(dataPoints, i).A
      x3 == At(dataPoints, i + 1).A
      y1 == At(dataPoints, i - 1).B
      y2 == At(dataPoints, i).B
      y3 == At(dataPoints, i + 1).B
      a == QDiv(QInt((y3 - y1) * (x2 - x1) - (y2 - y1) * (x3 - x1)),
                QInt((x3 * x3 - x1 * x1) * (x2 - x1) - (x2 * x2 - x1 * x1) * (x3 - x1)))
      b == QDiv(QSub(QInt(y2 - y1), QMul(a, QInt(x2 * x2 - x1 * x1))), QInt(x2 - x1))
      c == QSub(QInt(y1), QAdd(QMul(QMul(a, QInt(x1)), QInt(x1)), QMul(b, QInt(x1))))
  IN  CurvePoint(a, b, c)

\* rate = (dataPoints[numPoints-1].B - dataPoints[numPoints-2].B) /
\*        (dataPoints[numPoints-1].A - dataPoints[numPoints-2].A)
\* curve[numPoints-1] = CurvePoint{0, rate, dataPoints[numPoints-1].B - dataPoints[numPoints-2].A*rate}
LastSegment(dataPoints) ==
  LET nPoints == Len(dataPoints)
      rate == QDiv(QInt(At(dataPoints, nPoints - 1).B - At(dataPoints, nPoints - 2).B),
                   QInt(At(dataPoints, nPoints - 1).A - At(dataPoints, nPoints - 2).A))
  IN  CurvePoint(QInt(0), rate,
                 QSub(QInt(At(dataPoints, nPoints - 1).B),
                      QMul(QInt(At(dataPoints, nPoints - 2).A), rate)))

\* a variant of calculateCurve: curve = make([]CurvePoint, numPoints-1), the
\* last segment left out
calculateCurveShort(dataPoints) ==
  LET nPoints == Len(dataPoints)
  IN  [k \in 1..(nPoints - 1) |->
         IF k - 1 = 0 THEN FirstSegment(dataPoints)
         ELSE Interior(dataPoints, k - 1)]

\* curve = make([]CurvePoint, numPoints); curve[0]; for i = 1; i < numPoints-1;
\* i++ { curve[i] }; curve[numPoints-1]
calculateCurve(dataPoints) ==
  LET nPoints == Len(dataPoints)
  IN  [k \in 1..nPoints |->
         IF k - 1 = nPoints - 1 THEN LastSegment(dataPoints)
         ELSE IF k - 1 = 0 THEN FirstSegment(dataPoints)
         ELSE Interior(dataPoints, k - 1)]

\* ------------------------------------------------------------------------
\* Evaluator calculateByCurve: the pieces of its body
\* ------------------------------------------------------------------------
\* a variant of SearchHi: mhi = numPoints
SearchHiLen(n) == n

\* mhi = numPoints - 2
SearchHi(n) == n - 2

\* a variant of Mid: mid = mlo
MidIsLo(lo, hi) == lo

\* mid = int(math.Floor(float64(mhi+mlo) / 2.0))
Mid(lo, hi) == (hi + lo) \div 2

\* if (data[mhi].A - mach) > (mach - data[mlo].A) { m = mlo } else { m = mhi }
Nearest(d, lo, hi, x) ==
  IF (At(d, hi).A - x) > (x - At(d, lo).A) THEN lo ELSE hi

\* curve[m].C + mach*(curve[m].B+curve[m].A*mach)
CurveValue(cp, x) == QAdd(cp.C, QMul(QInt(x), QAdd(cp.B, QMul(cp.A, QInt(x)))))

InRange(s, i) == i >= 0 /\ i < Len(s)

\* the loop and the choice of m, as a function of the table and of mach
RECURSIVE Search(_, _, _, _)
Search(d, lo, hi, x) ==
  IF (hi - lo) > 1
  THEN LET md == Mid(lo, hi)
       IN  IF At(d, md).A < x THEN Search(d, md, hi, x) ELSE Search(d, lo, md, x)
  ELSE Nearest(d, lo, hi, x)

\* calculateByCurve(data, curve, mach) as a function of its arguments
calculateByCurve(d, c, x) == CurveValue(At(c, Search(d, 0, SearchHi(Len(c)), x)), x)

\* ------------------------------------------------------------------------
\* BallisticCoefficient
\* ------------------------------------------------------------------------
\* a dragFunction value: nil, or the closure over one table and one curve
NilFunc == [kind |-> "nil", data |-> "", curve |-> ""]
PanicFunc == [kind |-> "panic", data |-> "", curve |-> ""]
Closure(t, c) == [kind |-> "func", data |-> t, curve |-> c]

\* BallisticCoefficient{}
ZeroBC == [value |-> QInt(0), table |-> 0, drag |-> NilFunc]

\* a variant of dragFunctionFactory: the case of DragTableG2 closes over the
\* table and the curve of G1
dragFunctionFactoryG2asG1(dragTable) ==
  CASE dragTable = DragTableG1 -> Closure("g1Table", "g1Curve")
    [] dragTable = DragTableG2 -> Closure("g1Table", "g1Curve")
    [] dragTable = DragTableG5 -> Closure("g5Table", "g5Curve")
    [] dragTable = DragTableG6 -> Closure("g6Table", "g6Curve")
    [] dragTable = DragTableG7 -> Closure("g7Table", "g7Curve")
    [] dragTable = DragTableG8 -> Closure("g8Table", "g8Curve")
    [] dragTable = DragTableGI -> Closure("gITable", "gICurve")
    [] dragTable = DragTableGS -> Closure("gSTable", "gSCurve")
    [] OTHER -> PanicFunc

dragFunctionFactory(dragTable) ==
  CASE dragTable = DragTableG1 -> Closure("g1Table", "g1Curve")
    [] dragTable = DragTableG2 -> Closure("g2Table", "g2Curve")
    [] dragTable = DragTableG5 -> Closure("g5Table", "g5Curve")
    [] dragTable = DragTableG6 -> Closure("g6Table", "g6Curve")
    [] dragTable = DragTableG7 -> Closure("g7Table", "g7Curve")
    [] dragTable = DragTableG8 -> Closure("g8Table", "g8Curve")
    [] dragTable = DragTableGI -> Closure("gITable", "gICurve")
    [] dragTable = DragTableGS -> Closure("gSTable", "gSCurve")
    [] OTHER -> PanicFunc

\* a variant of CreateBallisticCoefficient: the test value < 0 lets zero through
CreateAcceptsZero(value, dragTable) ==
  IF dragTable < DragTableG1
  THEN [bc |-> ZeroBC, err |-> "error"]
  ELSE IF value[1] < 0
  THEN [bc |-> ZeroBC, err |-> "error"]
  ELSE LET f == dragFunctionFactory(dragTable)
       IN  IF f.kind = "panic"
           THEN [bc |-> ZeroBC, err |-> "panic"]
           ELSE [bc |-> [value |-> value, table |-> dragTable, drag |-> f], err |-> "nil"]

\* a variant of CreateBallisticCoefficient: the field table is left out of the
\* composite literal
CreateDropsTable(value, dragTable) ==
  IF dragTable < DragTableG1
  THEN [bc |-> ZeroBC, err |-> "error"]
  ELSE IF value[1] <= 0
  THEN [bc |-> ZeroBC, err |-> "error"]
  ELSE LET f == dragFunctionFactory(dragTable)
       IN  IF f.kind = "panic"
           THEN [bc |-> ZeroBC, err |-> "panic"]
           ELSE [bc |-> [value |-> value, table |-> 0, drag |-> f], err |-> "nil"]

\* result of CreateBallisticCoefficient: the pair (BallisticCoefficient, error),
\* or a panic raised by dragFunctionFactory
CreateBallisticCoefficient(value, dragTable) ==
  IF dragTable < DragTableG1
  THEN [bc |-> ZeroBC, err |-> "error"]
  ELSE IF value[1] <= 0
  THEN [bc |-> ZeroBC, err |-> "error"]
  ELSE LET f == dragFunctionFactory(dragTable)
       IN  IF f.kind = "panic"
           THEN [bc |-> ZeroBC, err |-> "panic"]
           ELSE [bc |-> [value |-> value, table |-> dragTable, drag |-> f], err |-> "nil"]

Value(v) == v.value

Table(v) == v.table

\* 2.08551e-04 as a fraction
DragScale == <<208551, 1000000000>>

\* a variant of Drag: v.drag(mach) * 2.08551e-04 * v.value
DragTimesValue(v, c) == [coef |-> QMul(c, v.value), scale |-> DragScale]

\* v.drag(mach) * 2.08551e-04 / v.value, with c the value of v.drag(mach).
\* The product is kept in factored form, coef * scale, coef = c / v.value:
\* its numerator does not fit the integers of the model checker.
Drag(v, c) == [coef |-> QDiv(c, v.value), scale |-> DragScale]

\* ------------------------------------------------------------------------
\* Package-level variables: var gXTable = []DataPoint{...} and
\* var gXCurve = calculateCurve(gXTable), set once by package initialisation
\* and assigned nowhere else in the source
\* ------------------------------------------------------------------------
g1Curve == calculateCurve(g1Table)
g7Curve == calculateCurve(g7Table)
g2Curve == calculateCurve(g2Table)
g5Curve == calculateCurve(g5Table)
g6Curve == calculateCurve(g6Table)
g8Curve == calculateCurve(g8Table)
gICurve == calculateCurve(gITable)
gSCurve == calculateCurve(gSTable)

\* the package-level tables and curves by name, as the closures of
\* dragFunctionFactory refer to them
tables ==
  [g1Table |-> g1Table, g7Table |-> g7Table, g2Table |-> g2Table,
   g5Table |-> g5Table, g6Table |-> g6Table, g8Table |-> g8Table,
   gITable |-> gITable, gSTable |-> gSTable]

curves ==
  [g1Curve |-> g1Curve, g7Curve |-> g7Curve, g2Curve |-> g2Curve,
   g5Curve |-> g5Curve, g6Curve |-> g6Curve, g8Curve |-> g8Curve,
   gICurve |-> gICurve, gSCurve |-> gSCurve]

NoValue == <<>>

\* the value an exported function returned, with the function's name: the
\* functions return values of different types
Result(name, value) == <<name, value>>

\* package-level storage.  The values the package initialisation gives its
\* tables and curves are the definitions above; store holds the contents of
\* those assigned to since, and a read takes the contents from store first.
StorageNames == (DOMAIN tables) \cup (DOMAIN curves)

Initial(name) == IF name \in DOMAIN tables THEN tables[name] ELSE curves[name]

NoStore == [name \in {} |-> <<>>]

Load(name) == IF name \in DOMAIN store THEN store[name] ELSE Initial(name)

\* inputs
Values == {QNorm(v, 2) : v \in (-MaxValue)..MaxValue}

DragTables == 0..MaxDragTable

MachInputs(d) == (At(d, 0).A - MachMargin)..(At(d, Len(d) - 1).A + MachMargin)

RECURSIVE SortedSeq(_)
SortedSeq(S) ==
  IF S = {} THEN <<>>
  ELSE LET x == CHOOSE y \in S : \A z \in S : y <= z
       IN  <<x>> \o SortedSeq(S \ {x})

\* caller-supplied tables: 2..MaxPoints samples, Mach strictly increasing
CallerTables ==
  UNION { { [i \in 1..Len(xs) |-> DataPoint(xs[i], ys[i])] :
              ys \in [1..Len(xs) -> 0..MaxCoef] } :
          xs \in { SortedSeq(S) :
                     S \in { T \in SUBSET (0..MaxMach) :
                               Cardinality(T) >= 2 /\ Cardinality(T) <= MaxPoints } } }

Init ==
  /\ bc = ZeroBC
  /\ err = "none"
  /\ in = [value |-> QInt(0), dragTable |-> 0]
  /\ op = "none"
  /\ pc = "idle"
  /\ data = <<>>
  /\ curve = <<>>
  /\ mach = 0
  /\ numPoints = 0
  /\ m = 0
  /\ mlo = 0
  /\ mhi = 0
  /\ mid = 0
  /\ used = {}
  /\ cd = NoValue
  /\ ret = NoValue
  /\ store = NoStore

\* no call of calculateByCurve is active: its frame holds zero values
NoFrame ==
  /\ mach' = 0
  /\ numPoints' = 0
  /\ m' = 0
  /\ mlo' = 0
  /\ mhi' = 0
  /\ mid' = 0
  /\ used' = {}
  /\ cd' = NoValue

\* entry of calculateByCurve(d, c, x): numPoints = len(curve); mhi = numPoints - 2
Enter(d, c, x) ==
  /\ data' = d
  /\ curve' = c
  /\ mach' = x
  /\ numPoints' = Len(c)
  /\ m' = 0
  /\ mlo' = 0
  /\ mhi' = SearchHi(Len(c))
  /\ mid' = 0
  /\ used' = {}
  /\ cd' = NoValue
  /\ pc' = "loop"

\* ------------------------------------------------------------------------
\* Exported functions
\* ------------------------------------------------------------------------
CallCreateBallisticCoefficient ==
  \E value \in Values, dragTable \in DragTables :
    LET r == CreateBallisticCoefficient(value, dragTable)
    IN  /\ pc = "idle"
        /\ in' = [value |-> value, dragTable |-> dragTable]
        /\ bc' = r.bc
        /\ err' = r.err
        /\ op' = "CreateBallisticCoefficient"
        /\ pc' = IF r.err = "panic" THEN "panic" ELSE "idle"
        /\ ret' = NoValue
        /\ data' = <<>>
        /\ curve' = <<>>
        /\ NoFrame
        /\ UNCHANGED store

CallValue ==
  /\ pc = "idle"
  /\ op' = "Value"
  /\ ret' = Result("Value", Value(bc))
  /\ data' = <<>>
  /\ curve' = <<>>
  /\ NoFrame
  /\ UNCHANGED <<caller, pc, store>>

CallTable ==
  /\ pc = "idle"
  /\ op' = "Table"
  /\ ret' = Result("Table", Table(bc))
  /\ data' = <<>>
  /\ curve' = <<>>
  /\ NoFrame
  /\ UNCHANGED <<caller, pc, store>>

\* v.Drag(mach): calls v.drag(mach); a nil drag function panics
CallDrag ==
  /\ pc = "idle"
  /\ op' = "Drag"
  /\ ret' = NoValue
  /\ IF bc.drag.kind = "func"
     THEN \E x \in MachInputs(Load(bc.drag.data)) :
            Enter(Load(bc.drag.data), Load(bc.drag.curve), x)
     ELSE /\ pc' = "panic"
          /\ data' = <<>>
          /\ curve' = <<>>
          /\ NoFrame
  /\ UNCHANGED <<caller, store>>

\* CalculateCurve(dataPoints) on a table of the caller: var customCurve =
\* CalculateCurve(customTable), the caller's first call
CallCalculateCurve ==
  \E dp \in CallerTables :
    /\ pc = "idle"
    /\ op = "none"
    /\ op' = "CalculateCurve"
    /\ data' = dp
    /\ curve' = calculateCurve(dp)
    /\ ret' = NoValue
    /\ NoFrame
    /\ UNCHANGED <<caller, pc, store>>

\* CalculateByCurve(table, curve, mach) on the caller's table and its curve
CallCalculateByCurve ==
  /\ pc = "idle"
  /\ op \in {"CalculateCurve", "CalculateByCurve"}
  /\ op' = "CalculateByCurve"
  /\ ret' = NoValue
  /\ \E x \in MachInputs(data) : Enter(data, curve, x)
  /\ UNCHANGED <<caller, store>>

\* ------------------------------------------------------------------------
\* calculateByCurve, step by step
\* ------------------------------------------------------------------------
\* one iteration of: for (mhi - mlo) > 1 { ... }
Loop ==
  /\ pc = "loop"
  /\ (mhi - mlo) > 1
  /\ LET md == Mid(mlo, mhi)
     IN  /\ mid' = md
         /\ used' = used \cup {md}
         /\ IF ~InRange(data, md)
            THEN /\ pc' = "panic"
                 /\ UNCHANGED <<mlo, mhi>>
            ELSE /\ pc' = "loop"
                 /\ IF At(data, md).A < mach
                    THEN /\ mlo' = md
                         /\ mhi' = mhi
                    ELSE /\ mhi' = md
                         /\ mlo' = mlo
  /\ UNCHANGED <<caller, op, data, curve, mach, numPoints, m, cd, ret, store>>

\* loop exit, then the choice of m between mlo and mhi
Pick ==
  /\ pc = "loop"
  /\ ~((mhi - mlo) > 1)
  /\ used' = used \cup {mhi, mlo}
  /\ IF ~InRange(data, mhi) \/ ~InRange(data, mlo)
     THEN /\ pc' = "panic"
          /\ m' = m
     ELSE /\ pc' = "return"
          /\ m' = Nearest(data, mlo, mhi, mach)
  /\ UNCHANGED <<caller, op, data, curve, mach, numPoints, mlo, mhi, mid, cd, ret, store>>

\* a variant of Return: before it returns, a call made by Drag zeroes the
\* constant of the segment it evaluated, curve[m].C = 0, in the family's curve
ReturnWritesCurve ==
  /\ pc = "return"
  /\ used' = used \cup {m}
  /\ IF ~InRange(curve, m)
     THEN /\ pc' = "panic"
          /\ UNCHANGED <<cd, ret, store>>
     ELSE /\ pc' = "idle"
          /\ cd' = CurveValue(At(curve, m), mach)
          /\ ret' = Result(op, IF op = "Drag" THEN Drag(bc, cd') ELSE cd')
          /\ store' = IF op = "Drag"
                      THEN [name \in (DOMAIN store) \cup {bc.drag.curve} |->
                              IF name = bc.drag.curve
                              THEN [curve EXCEPT ![m + 1].C = QInt(0)]
                              ELSE store[name]]
                      ELSE store
  /\ UNCHANGED <<caller, op, data, curve, mach, numPoints, m, mlo, mhi, mid>>

\* return curve[m].C + mach*(curve[m].B+curve[m].A*mach), and the return of
\* the exported function that called
Return ==
  /\ pc = "return"
  /\ used' = used \cup {m}
  /\ IF ~InRange(curve, m)
     THEN /\ pc' = "panic"
          /\ UNCHANGED <<cd, ret>>
     ELSE /\ pc' = "idle"
          /\ cd' = CurveValue(At(curve, m), mach)
          /\ ret' = Result(op, IF op = "Drag" THEN Drag(bc, cd') ELSE cd')
  /\ UNCHANGED <<caller, op, data, curve, mach, numPoints, m, mlo, mhi, mid, store>>

\* the coefficient API over the eight family tables
Next ==
  \/ CallCreateBallisticCoefficient
  \/ CallValue
  \/ CallTable
  \/ CallDrag
  \/ Loop
  \/ Pick
  \/ Return

Spec == Init /\ [][Next]_vars

\* the curve fitter and the evaluator over tables of the caller
NextCurve ==
  \/ CallCalculateCurve
  \/ CallCalculateByCurve
  \/ Loop
  \/ Pick
  \/ Return

SpecCurve == Init /\ [][NextCurve]_vars

\* a call of calculateByCurve, once made, runs on: an iteration of its loop
\* that can be taken is taken, and so is the exit of the loop
Running == WF_vars(Loop) /\ WF_vars(Pick)

\* the coefficient API, a call of Drag running to the exit of its loop
SpecLive == Init /\ [][Next]_vars /\ Running

\* ------------------------------------------------------------------------
\* Properties
\* ------------------------------------------------------------------------
\* the exported function called last has returned
Returned(name) == op = name /\ pc = "idle"

\* the 8 family identifiers
FamilyIds ==
  {DragTableG1, DragTableG2, DragTableG5, DragTableG6,
   DragTableG7, DragTableG8, DragTableGS, DragTableGI}

\* the table and the curve of a family, by the family's name
FamilyTable(id) ==
  CASE id = DragTableG1 -> g1Table
    [] id = DragTableG2 -> g2Table
    [] id = DragTableG5 -> g5Table
    [] id = DragTableG6 -> g6Table
    [] id = DragTableG7 -> g7Table
    [] id = DragTableG8 -> g8Table
    [] id = DragTableGS -> gSTable
    [] id = DragTableGI -> gITable

FamilyCurve(id) ==
  CASE id = DragTableG1 -> g1Curve
    [] id = DragTableG2 -> g2Curve
    [] id = DragTableG5 -> g5Curve
    [] id = DragTableG6 -> g6Curve
    [] id = DragTableG7 -> g7Curve
    [] id = DragTableG8 -> g8Curve
    [] id = DragTableGS -> gSCurve
    [] id = DragTableGI -> gICurve

\* a*x^2 + b*x + c of a segment, term by term
PolyAt(cp, x) == QAdd(QAdd(QMul(cp.A, QInt(x * x)), QMul(cp.B, QInt(x))), cp.C)

\* C1: CreateBallisticCoefficient returns a non-nil error, and does not panic,
\* for every dragTable byte outside the 8 family identifiers, whatever the value.
C1_UnknownTableReturnsError ==
  (op = "CreateBallisticCoefficient" /\ in.dragTable \notin FamilyIds)
    => (err = "error" /\ pc = "idle")

\* C2: CreateBallisticCoefficient returns a non-nil error for every value <= 0,
\* for every dragTable, and a coefficient handed out with a nil error has a
\* positive value.
C2_NonPositiveValueReturnsError ==
  /\ (op = "CreateBallisticCoefficient" /\ in.value[1] <= 0)
       => (err = "error" /\ pc = "idle" /\ bc = ZeroBC)
  /\ err = "nil" => bc.value[1] > 0

C2_Witness ==
  /\ op = "CreateBallisticCoefficient"
  /\ in.value = QInt(0)
  /\ in.dragTable = DragTableG7
  /\ err = "error"

\* C3: for value > 0 and dragTable among the 8 identifiers,
\* CreateBallisticCoefficient returns a nil error and a coefficient whose
\* Value() is the value passed in and whose Table() is the dragTable passed in.
C3_CreatedCoefficientKeepsArguments ==
  /\ (op = "CreateBallisticCoefficient" /\ in.value[1] > 0 /\ in.dragTable \in FamilyIds)
       => (err = "nil" /\ pc = "idle")
  /\ err = "nil" => (Value(bc) = in.value /\ Table(bc) = in.dragTable)
  /\ (err = "nil" /\ Returned("Value")) => ret = Result("Value", in.value)
  /\ (err = "nil" /\ Returned("Table")) => ret = Result("Table", in.dragTable)

C3_Witness ==
  /\ Returned("Table")
  /\ err = "nil"
  /\ in.dragTable = DragTableGI
  /\ in.value = <<1, 2>>
  /\ ret = Result("Table", DragTableGI)

\* C4: Drag(mach) of a created coefficient is the curve value of the
\* coefficient's own family at mach, c[m] + mach*(b[m] + a[m]*mach), times
\* 2.08551e-4, divided by the coefficient value.
C4_DragIsCurveValueTimesKOverValue ==
  Returned("Drag") =>
    /\ data = FamilyTable(bc.table)
    /\ curve = FamilyCurve(bc.table)
    /\ ret[1] = "Drag"
    /\ ret[2].scale = <<208551, 1000000000>>
    /\ QMul(ret[2].coef, bc.value) = PolyAt(At(FamilyCurve(bc.table), m), mach)

C4_Witness ==
  /\ Returned("Drag")
  /\ bc.table = DragTableG7
  /\ bc.value = <<1, 2>>
  /\ mach = 100
  /\ ret[2].coef = QInt(2 * 2697)

\* C5: for each of the 8 family tables and each sample of it, the first and
\* the last included, the evaluator at the sample's own Mach returns the
\* sample's drag coefficient (exactly, in the exact arithmetic of the model).
C5_ExactAtSamples ==
  Returned("Drag") =>
    \A i \in 0..(Len(data) - 1) :
      At(data, i).A = mach => cd = QInt(At(data, i).B)

C5_Witness ==
  /\ Returned("Drag")
  /\ bc.table = DragTableG1
  /\ mach = At(g1Table, Len(g1Table) - 1).A
  /\ m = Len(g1Table) - 2
  /\ cd = QInt(At(g1Table, Len(g1Table) - 1).B)

\* calculateByCurve has returned, to Drag or to the caller of CalculateByCurve
Evaluated == Returned("Drag") \/ Returned("CalculateByCurve")

\* C6: outside the table range the evaluator uses the nearest boundary
\* segment: segment 0 below the first sample's Mach, segment n-1 above the
\* last sample's Mach.
C6_SaturatesAtBoundarySegments ==
  Evaluated =>
    /\ mach < At(data, 0).A => m = 0
    /\ mach > At(data, Len(data) - 1).A => m = Len(curve) - 1

\* C7: calculateByCurve does not fail on any mach, for a table of at least 2
\* samples: it returns a value, and every index it reads the table or the
\* curve at lies in 0..n-1.
C7_NoFailureOutOfRange ==
  op \in {"CalculateCurve", "CalculateByCurve"} =>
    /\ pc # "panic"
    /\ \A i \in used : InRange(data, i) /\ InRange(curve, i)
    /\ Returned("CalculateByCurve") => (cd # NoValue /\ ret = Result("CalculateByCurve", cd) /\ m \in used)

C7_Witness ==
  /\ Returned("CalculateByCurve")
  /\ Len(data) = 2
  /\ mach > At(data, 1).A
  /\ used = {0}
  /\ cd # NoValue

\* 1e-9 of a drag coefficient, in the unit 1e-4 of the model: |q| <= 1/100000
WithinTolerance(q) == Abs(q[1]) <= q[2] \div 100000

\* C8 as stated: at a Mach value where the evaluator switches from one
\* segment to the adjacent one (the midpoint of two samples, where the tie
\* goes to mhi), the polynomials of the two segments give the same value.
C8_ContinuousAtSwitch ==
  (Evaluated /\ mhi = mlo + 1
     /\ (At(data, mhi).A - mach) = (mach - At(data, mlo).A))
    => WithinTolerance(QSub(CurveValue(At(curve, mlo), mach),
                            CurveValue(At(curve, mhi), mach)))

\* C8 as amended: the segments next to the one evaluated, among the segments
\* 0..n-2 the evaluator selects from, give at a sample's Mach the value the
\* evaluator returns there, the sample's coefficient: the curve is continuous
\* at the samples two adjacent segments share.
C8_ContinuousAtSamples ==
  (Evaluated /\ mach = At(data, m).A) =>
    \A k \in {m - 1, m + 1} \cap (0..(Len(curve) - 2)) :
      /\ CurveValue(At(curve, k), mach) = cd
      /\ cd = QInt(At(data, m).B)

C8_Witness ==
  /\ Returned("Drag")
  /\ bc.table = DragTableG1
  /\ mach = At(data, m).A
  /\ m = 30
  /\ CurveValue(At(curve, m - 1), mach) = cd
  /\ CurveValue(At(curve, m + 1), mach) = cd

\* the table the drag function of a family identifier reads
TableRead(id) == tables[dragFunctionFactory(id).data]

\* C9 as stated: every family identifier evaluates drag from the table of
\* its own family, and no other family identifier evaluates drag from the
\* same table data.
C9_OneTablePerFamily ==
  Returned("Drag") =>
    /\ data = FamilyTable(bc.table)
    /\ \A id \in FamilyIds \ {bc.table} : TableRead(id) # data

\* C9 as amended: every family identifier evaluates drag from the table of
\* its own family, and two distinct identifiers read the same table data
\* only when they are GS and GI.
C9_OneTablePerFamilyButGSAndGI ==
  Returned("Drag") =>
    /\ data = FamilyTable(bc.table)
    /\ \A id \in FamilyIds \ {bc.table} :
         TableRead(id) = data => {id, bc.table} = {DragTableGS, DragTableGI}

C9_Witness ==
  /\ Returned("Drag")
  /\ bc.table = DragTableGS
  /\ data = gITable
  /\ TableRead(DragTableGI) = data

\* C10: calculateCurve returns one segment per sample, for every table of
\* n >= 2 samples, n = 2 included, and for the 8 family curves.
C10_OneSegmentPerSample ==
  /\ op \in {"CalculateCurve", "CalculateByCurve"} => Len(curve) = Len(data)
  /\ \A id \in FamilyIds : Len(FamilyCurve(id)) = Len(FamilyTable(id))

C10_Witness ==
  /\ op = "CalculateCurve"
  /\ Len(data) = 2
  /\ Len(curve) = 2

\* the divisor of a secant slope: dataPoints[i+1].A - dataPoints[i].A (rate of
\* the first and of the last segment; x2 - x1 of an interior segment)
SecantDenominator(dataPoints, i) == At(dataPoints, i + 1).A - At(dataPoints, i).A

\* the divisor of a of an interior segment:
\* (x3*x3-x1*x1)*(x2-x1) - (x2*x2-x1*x1)*(x3-x1)
Determinant(dataPoints, i) ==
  LET x1 == At(dataPoints, i - 1).A
      x2 == At(dataPoints, i).A
      x3 == At(dataPoints, i + 1).A
  IN  (x3 * x3 - x1 * x1) * (x2 - x1) - (x2 * x2 - x1 * x1) * (x3 - x1)

\* Mach strictly increasing from each sample to the next
StrictlyIncreasing(d) ==
  \A i \in 0..(Len(d) - 2) : At(d, i).A < At(d, i + 1).A

\* no divisor of calculateCurve on d is zero
NoZeroDenominator(d) ==
  /\ SecantDenominator(d, 0) # 0
  /\ SecantDenominator(d, Len(d) - 2) # 0
  /\ \A i \in 1..(Len(d) - 2) :
       SecantDenominator(d, i - 1) # 0 /\ Determinant(d, i) # 0

FamilyTablesIncreasing ==
  \A id \in FamilyIds :
    StrictlyIncreasing(FamilyTable(id)) /\ NoZeroDenominator(FamilyTable(id))

\* C11: in each of the 8 reference tables the Mach values are strictly
\* increasing from one sample to the next, so no divisor of calculateCurve
\* (the secant differences, x2-x1, the 3-point determinant) is zero; the
\* table a Drag call evaluates is such a table.
C11_MachStrictlyIncreasing ==
  /\ FamilyTablesIncreasing
  /\ (op = "Drag" /\ pc # "panic") =>
       (StrictlyIncreasing(data) /\ NoZeroDenominator(data))

C11_Witness ==
  /\ Returned("Drag")
  /\ bc.table = DragTableGS
  /\ data = gSTable
  /\ Len(data) = 81
  /\ StrictlyIncreasing(data)
  /\ Determinant(data, 1) # 0

\* mach lies within the table range [first sample Mach, last sample Mach]
WithinTable(d, x) == At(d, 0).A <= x /\ x <= At(d, Len(d) - 1).A

\* the index of the sample of d whose Mach is nearest to x; of two samples
\* equally near, the higher index
NearestSample(d, x) ==
  CHOOSE i \in 0..(Len(d) - 1) :
    \A j \in 0..(Len(d) - 1) :
      \/ Abs(At(d, i).A - x) < Abs(At(d, j).A - x)
      \/ (Abs(At(d, i).A - x) = Abs(At(d, j).A - x) /\ i >= j)

\* C12: for every mach within the table range calculateByCurve evaluates the
\* segment of the sample whose Mach is nearest to mach among all samples of
\* the table, the higher-index one when two adjacent samples are equally near.
C12_NearestSegmentTiesFavorHi ==
  (Evaluated /\ WithinTable(data, mach)) => m = NearestSample(data, mach)

\* one iteration of the loop picks mid strictly between mlo and mhi and
\* strictly shrinks mhi - mlo
LoopShrinks ==
  Loop => /\ mlo < mid' /\ mid' < mhi
          /\ (mhi' - mlo') < (mhi - mlo)
          /\ pc' = "loop"

\* C13: the binary-search loop of calculateByCurve terminates for every mach
\* and every table of at least 2 samples: every iteration picks mid strictly
\* between mlo and mhi and strictly shrinks mhi - mlo, mlo <= mhi holds
\* throughout, and the loop is left, with mhi - mlo <= 1.
C13_LoopTerminates ==
  /\ [][LoopShrinks]_vars
  /\ [](pc \in {"loop", "return"} => (0 <= mlo /\ mlo <= mhi))
  /\ [](pc = "return" => (mhi - mlo) <= 1)
  /\ (pc = "loop") ~> (pc = "return")

C13_Witness ==
  /\ pc = "return"
  /\ op = "Drag"
  /\ bc.table = DragTableG2
  /\ Cardinality(used) >= 8
  /\ mhi - mlo = 1

\* segment i of c passes through sample j of d
PassesThrough(c, d, i, j) == PolyAt(At(c, i), At(d, j).A) = QInt(At(d, j).B)

\* every interior segment of c passes through its own sample and the two
\* samples next to it
InteriorExact(c, d) ==
  \A i \in 1..(Len(d) - 2) :
    \A j \in {i - 1, i, i + 1} : PassesThrough(c, d, i, j)

FamilyInteriorExact ==
  \A id \in FamilyIds : InteriorExact(FamilyCurve(id), FamilyTable(id))

\* C14: for every table with strictly increasing Mach and every interior
\* sample i (1..n-2), segment i of calculateCurve is the quadratic through
\* samples i-1, i and i+1: a*x^2 + b*x + c at each of the three Mach values
\* is the sample's coefficient.  Also for the 8 family curves.
C14_InteriorSegmentsInterpolate ==
  /\ op \in {"CalculateCurve", "CalculateByCurve"} => InteriorExact(curve, data)
  /\ FamilyInteriorExact

C14_Witness ==
  /\ op = "CalculateCurve"
  /\ Len(data) = 4
  /\ At(data, 0).A = 1
  /\ At(curve, 1).A # QInt(0)
  /\ At(curve, 2).A # QInt(0)
  /\ At(curve, 1) # At(curve, 2)
  /\ PassesThrough(curve, data, 2, 1)
  /\ PassesThrough(curve, data, 2, 3)

\* segment i of c is a line: its quadratic coefficient is 0
IsLine(c, i) == At(c, i).A = QInt(0)

\* the first segment is the secant line of samples 0 and 1, the last segment
\* the secant line of samples n-2 and n-1
BoundarySecants(c, d) ==
  /\ IsLine(c, 0)
  /\ PassesThrough(c, d, 0, 0)
  /\ PassesThrough(c, d, 0, 1)
  /\ IsLine(c, Len(d) - 1)
  /\ PassesThrough(c, d, Len(d) - 1, Len(d) - 2)
  /\ PassesThrough(c, d, Len(d) - 1, Len(d) - 1)

FamilyBoundarySecants ==
  \A id \in FamilyIds : BoundarySecants(FamilyCurve(id), FamilyTable(id))

\* C15: the first and the last segment of calculateCurve are the secant lines
\* of the two nearest samples: segment 0 has quadratic coefficient 0 and
\* passes through samples 0 and 1, segment n-1 has quadratic coefficient 0
\* and passes through samples n-2 and n-1.  Also for the 8 family curves.
C15_BoundarySegmentsAreSecants ==
  /\ op \in {"CalculateCurve", "CalculateByCurve"} => BoundarySecants(curve, data)
  /\ FamilyBoundarySecants

\* every package-level table and curve holds what package initialisation gave it
StorageUnchanged == \A name \in StorageNames : Load(name) = Initial(name)

\* a step changes the caller's coefficient only when it is the return of
\* CreateBallisticCoefficient
CoefficientKept == op' # "CreateBallisticCoefficient" => bc' = bc

\* what Drag(x) of coefficient v returns when computed from the tables and
\* curves of package initialisation
DragOf(v, x) ==
  Drag(v, calculateByCurve(FamilyTable(v.table), FamilyCurve(v.table), x))

====
